---- MODULE Spec2Model ----
(***************************************************************************)
(* Model of the search scraper (services/scraper.js): the Express handler  *)
(* `scraper`, the product extractor `parseProducts` and the pagination     *)
(* detector `getLastNumericPageSpan`.                                      *)
(*                                                                         *)
(* Conventions.  A JavaScript string is a sequence of one-character        *)
(* strings.  An optional value (an absent attribute, a querySelector miss, *)
(* an undefined query parameter) is a sequence of length 0 or 1.  A        *)
(* JavaScript number-or-null is a record [t, v] with t in "num", "nan",    *)
(* "null".                                                                 *)
(***************************************************************************)
EXTENDS Integers, Sequences, FiniteSets, TLC

VARIABLES
    pc,          \* position of the handler: "idle", "await", "done"; "parse", "parsed"
    query,       \* req.query
    keyword,     \* const keyword
    page,        \* const page
    pages,       \* const pages
    i,           \* loop counter
    output,      \* let output
    hasNext,     \* let hasNext
    totalPages,  \* let totalPages
    html,        \* const html of the current iteration
    fetched,     \* the page numbers of the axios.get calls issued so far
    received,    \* the outcomes of the fetches that have settled so far
    sent         \* the responses written to res so far

vars == <<pc, query, keyword, page, pages, i, output, hasNext, totalPages,
          html, fetched, received, sent>>

-----------------------------------------------------------------------------
(* JavaScript values *)

None == <<>>
Some(x) == <<x>>

Num(n) == [t |-> "num", v |-> n]
NaN == [t |-> "nan", v |-> 0]
Null == [t |-> "null", v |-> 0]

IsNum(x) == x.t = "num"

\* Math.max(a, b): NaN when an argument is NaN
MathMax(a, b) ==
    IF a.t = "nan" \/ b.t = "nan" THEN NaN
    ELSE IF a.v >= b.v THEN a ELSE b

\* Math.min(a, b): NaN when an argument is NaN
MathMin(a, b) ==
    IF a.t = "nan" \/ b.t = "nan" THEN NaN
    ELSE IF a.v <= b.v THEN a ELSE b

\* a + b on numbers
JsAdd(a, b) ==
    IF a.t = "nan" \/ b.t = "nan" THEN NaN ELSE Num(a.v + b.v)

\* a < b on numbers: false when an operand is NaN
JsLess(a, b) == a.t = "num" /\ b.t = "num" /\ a.v < b.v

\* Math.ceil(a / b) with a number-or-null (null converts to 0) and b >= 1 or NaN
CeilDiv(a, b) ==
    LET n == IF a.t = "null" THEN Num(0) ELSE a
    IN  IF n.t = "nan" \/ b.t = "nan" THEN NaN
        ELSE Num((n.v + b.v - 1) \div b.v)

\* JSON.stringify of a number-or-null field, as res.json does: NaN becomes null
JsonNumber(x) == IF x.t = "nan" THEN Null ELSE x

-----------------------------------------------------------------------------
(* JavaScript strings *)

Whitespace == {" ", "\t"}
Digits == <<"0", "1", "2", "3", "4", "5", "6", "7", "8", "9">>
IsDigit(c) == \E k \in 1..10 : Digits[k] = c
DigitValue(c) == (CHOOSE k \in 1..10 : Digits[k] = c) - 1

RECURSIVE TrimStart(_)
TrimStart(s) ==
    IF s # <<>> /\ Head(s) \in Whitespace THEN TrimStart(Tail(s)) ELSE s

RECURSIVE TrimEnd(_)
TrimEnd(s) ==
    IF s # <<>> /\ s[Len(s)] \in Whitespace
    THEN TrimEnd(SubSeq(s, 1, Len(s) - 1))
    ELSE s

\* Variant of Trim: the keyword taken as typed
NoTrim(s) == s

\* String.prototype.trim
Trim(s) == TrimEnd(TrimStart(s))

RECURSIVE DigitPrefix(_)
DigitPrefix(s) ==
    IF s # <<>> /\ IsDigit(Head(s)) THEN <<Head(s)>> \o DigitPrefix(Tail(s)) ELSE <<>>

RECURSIVE DecimalValue(_)
DecimalValue(d) ==
    IF d = <<>> THEN 0
    ELSE 10 * DecimalValue(SubSeq(d, 1, Len(d) - 1)) + DigitValue(d[Len(d)])

\* parseInt(s, 10): leading whitespace, an optional sign, the longest digit
\* prefix; NaN when there is no digit
ParseInt(s) ==
    LET t == TrimStart(s)
        signed == t # <<>> /\ Head(t) \in {"-", "+"}
        u == IF signed THEN Tail(t) ELSE t
        d == DigitPrefix(u)
    IN  IF d = <<>> THEN NaN
        ELSE IF signed /\ Head(t) = "-" THEN Num(0 - DecimalValue(d))
        ELSE Num(DecimalValue(d))

\* s.replace(/[^\d]/g, "")
DigitsOnly(s) == SelectSeq(s, IsDigit)

\* a || b on optional strings: undefined and "" are falsy
OrElse(opt, default) ==
    IF opt # None /\ opt[1] # <<>> THEN opt[1] ELSE default

-----------------------------------------------------------------------------
(* Documents.  A document is what the selectors of the code can see of it:   *)
(*   cards   the div elements of the page, in document order, each with the  *)
(*           facts the card selector and the per-card queries read;          *)
(*   nav     the elements that carry a next-page marker, in document order;  *)
(*   stripClass, stripNav, stripLegacy                                        *)
(*           the first match of each of the three strip selectors, as the    *)
(*           list of its .s-pagination-item descendants, when present.       *)

SCRAPING_URI == "https://www.amazon.com/"

Card(mainSlot, resultItem, dataAsin, adHolder, sponsored, h2ASpan, h2Span) ==
    [mainSlot |-> mainSlot,       \* inside div.s-main-slot
     resultItem |-> resultItem,   \* div.s-result-item.s-asin
     dataAsin |-> dataAsin,       \* the data-asin attribute, optional
     adHolder |-> adHolder,       \* class AdHolder
     sponsored |-> sponsored,     \* the sponsored marker inside it, or "none"
     h2ASpan |-> h2ASpan,         \* textContent of the first "h2 a span", optional
     h2Span |-> h2Span]           \* textContent of the first "h2 span", optional

NavElement(tag, next, disabled, ariaNext) ==
    [tag |-> tag,                 \* "a" or another element
     next |-> next,               \* class s-pagination-next
     disabled |-> disabled,       \* class s-pagination-disabled
     ariaNext |-> ariaNext]       \* aria-label = "Go to next page"

StripItem(cls, aria, text) ==
    [cls |-> cls,                 \* "page", "previous", "next" or "ellipsis"
     aria |-> aria,               \* the aria-label attribute, optional
     text |-> text]               \* textContent

Document(cards, nav, stripClass, stripNav, stripLegacy) ==
    [cards |-> cards, nav |-> nav, stripClass |-> stripClass,
     stripNav |-> stripNav, stripLegacy |-> stripLegacy]

\* The value of a products.map callback that returned null
NoProduct == [asin |-> <<>>, title |-> <<>>, url |-> <<>>]

\* The card selector of querySelectorAll
MatchesCardSelector(card) ==
    /\ card.mainSlot
    /\ card.resultItem
    /\ card.dataAsin # None
    /\ card.dataAsin[1] # <<>>
    /\ ~card.adHolder

\* Variant of isSponsored: only the class is looked at
IsSponsoredClassOnly(card) == card.adHolder

\* const isSponsored
IsSponsored(card) ==
    \/ card.adHolder
    \/ card.sponsored \in {"aria-label", "label-text", "sp-component"}

\* ?.textContent?.trim() of an optional element text: "" stands for undefined
TrimmedText(opt) == IF opt = None THEN <<>> ELSE Trim(opt[1])

\* const title; <<>> stands for null
Title(card) ==
    IF TrimmedText(card.h2ASpan) # <<>> THEN TrimmedText(card.h2ASpan)
    ELSE IF TrimmedText(card.h2Span) # <<>> THEN TrimmedText(card.h2Span)
    ELSE <<>>

\* const asin; <<>> stands for null
Asin(card) == OrElse(card.dataAsin, <<>>)

\* const url; <<>> stands for null.  The href branch needs a card without asin.
DetailUrl(card) ==
    IF Asin(card) # <<>> THEN <<SCRAPING_URI, "/dp/">> \o Asin(card) ELSE <<>>

\* The callback of cards.map
MapCard(card) ==
    IF IsSponsored(card) THEN NoProduct
    ELSE IF Title(card) = <<>> THEN NoProduct
    ELSE [asin |-> Asin(card), title |-> Title(card), url |-> DetailUrl(card)]

IsProduct(r) == r # NoProduct

\* The result of doc.querySelector, optional: the first of the matches
FirstOf(matches) == IF matches = <<>> THEN None ELSE Some(Head(matches))

EnabledNextAnchor(el) == el.tag = "a" /\ el.next /\ ~el.disabled
GoToNextAnchor(el) == el.tag = "a" /\ el.ariaNext

\* Variant of nextLink: the disabled class is not looked at
NextLinkAnyState(doc) ==
    FirstOf(SelectSeq(doc.nav, LAMBDA el : el.tag = "a" /\ (el.next \/ el.ariaNext)))

\* const nextLink
NextLink(doc) ==
    IF FirstOf(SelectSeq(doc.nav, EnabledNextAnchor)) # None
    THEN FirstOf(SelectSeq(doc.nav, EnabledNextAnchor))
    ELSE FirstOf(SelectSeq(doc.nav, GoToNextAnchor))

parseProducts(doc) ==
    LET cards == SelectSeq(doc.cards, MatchesCardSelector)
        mapped == [k \in 1..Len(cards) |-> MapCard(cards[k])]
        products == SelectSeq(mapped, IsProduct)
    IN  [products |-> products, hasNext |-> NextLink(doc) # None]

\* const strip, optional
Strip(doc) ==
    IF doc.stripClass # None THEN doc.stripClass
    ELSE IF doc.stripNav # None THEN doc.stripNav
    ELSE doc.stripLegacy

IsNumericItem(el) == el.cls \notin {"previous", "next", "ellipsis"}

\* const label
ItemLabel(el) == OrElse(el.aria, el.text)

getLastNumericPageSpan(doc) ==
    IF Strip(doc) = None THEN Null
    ELSE LET items == SelectSeq(Strip(doc)[1], IsNumericItem)
         IN  IF items = <<>> THEN Null
             ELSE LET num == ParseInt(DigitsOnly(ItemLabel(items[Len(items)])))
                  IN  IF IsNum(num) THEN num ELSE Null

-----------------------------------------------------------------------------
(* The handler *)

maxPages == 3

MissingKeyword == [status |-> 400, body |-> [error |-> "Missing ?keyword="]]

\* Variant of ErrorDetails: the cause is not reported
ErrorDetailsGeneric(err) == "Error"

\* err?.message || String(err)
ErrorDetails(err) == IF err.message # "" THEN err.message ELSE err.name

\* The response of the catch block
ScrapeFailure(err) ==
    [status |-> 500,
     body |-> [error |-> "Scraping of https://www.amazon.com/ failed.",
               details |-> ErrorDetails(err)]]

\* The response of res.json({...}), numbers as JSON writes them
Summary(kw, pg, pgs, out, next, total) ==
    [status |-> 200,
     body |-> [keyword |-> kw,
               page |-> JsonNumber(pg),
               pagesFetched |->
                   JsonNumber(MathMin(pgs, IF Len(out) # 0 THEN pgs ELSE Num(0))),
               hasNext |-> next,
               nextPage |-> IF next THEN JsonNumber(JsAdd(pg, pgs)) ELSE Null,
               count |-> Len(out),
               products |-> out,
               totalPages |-> JsonNumber(CeilDiv(total, pgs))]]

\* const page
RequestedPage(q) == MathMax(Num(1), ParseInt(OrElse(q.page, <<"1">>)))

\* Variant of RequestedPages: the count is not capped at maxPages
RequestedPagesUncapped(q) ==
    MathMax(Num(1), ParseInt(OrElse(q.pages, <<"1">>)))

\* const pages
RequestedPages(q) ==
    MathMax(Num(1), MathMin(Num(maxPages), ParseInt(OrElse(q.pages, <<"1">>))))

\* Variant of CaptureTotalPages: every page overwrites the value
CaptureEveryPage(total, doc) == getLastNumericPageSpan(doc)

\* if (totalPages == null) totalPages = getLastNumericPageSpan(doc)
CaptureTotalPages(total, doc) ==
    IF total = Null THEN getLastNumericPageSpan(doc) ELSE total

NoDocument == Document(<<>>, <<>>, None, None, None)
NoError == [name |-> "", message |-> ""]

\* The loop head with counter n: the next fetch is issued, or the loop ends and
\* the summary is sent
LoopHead(n, kw, pg, pgs, out, next, total) ==
    IF JsLess(Num(n), pgs)
    THEN /\ fetched' = Append(fetched, JsAdd(pg, Num(n)))
         /\ pc' = "await"
         /\ sent' = sent
    ELSE /\ fetched' = fetched
         /\ pc' = "done"
         /\ sent' = Append(sent, Summary(kw, pg, pgs, out, next, total))

\* scraper(req, res, next) up to its first await
Scraper(q) ==
    /\ pc = "idle"
    /\ query' = q
    /\ keyword' = Trim(OrElse(q.keyword, <<>>))
    /\ IF keyword' = <<>>
       THEN /\ sent' = Append(sent, MissingKeyword)
            /\ pc' = "done"
            /\ UNCHANGED <<page, pages, i, output, hasNext, totalPages, fetched>>
       ELSE /\ page' = RequestedPage(q)
            /\ pages' = RequestedPages(q)
            /\ output' = <<>>
            /\ hasNext' = FALSE
            /\ totalPages' = Null
            /\ i' = 0
            /\ LoopHead(0, keyword', page', pages', <<>>, FALSE, Null)
    /\ UNCHANGED <<html, received>>

\* fetchHtml resolves with doc: the rest of the iteration, then the loop head
FetchResolved(doc) ==
    /\ pc = "await"
    /\ html' = doc
    /\ received' = Append(received, [ok |-> TRUE, doc |-> doc, err |-> NoError])
    /\ output' = output \o parseProducts(doc).products
    /\ hasNext' = parseProducts(doc).hasNext
    /\ totalPages' = CaptureTotalPages(totalPages, doc)
    /\ IF ~parseProducts(doc).hasNext
       THEN /\ i' = i
            /\ fetched' = fetched
            /\ pc' = "done"
            /\ sent' = Append(sent, Summary(keyword, page, pages, output',
                                            hasNext', totalPages'))
       ELSE /\ i' = i + 1
            /\ LoopHead(i + 1, keyword, page, pages, output', hasNext', totalPages')
    /\ UNCHANGED <<query, keyword, page, pages>>

\* fetchHtml rejects with err: the catch block
FetchRejected(err) ==
    /\ pc = "await"
    /\ received' = Append(received, [ok |-> FALSE, doc |-> NoDocument, err |-> err])
    /\ sent' = Append(sent, ScrapeFailure(err))
    /\ pc' = "done"
    /\ UNCHANGED <<query, keyword, page, pages, i, output, hasNext, totalPages,
                   html, fetched>>

-----------------------------------------------------------------------------
(* Inputs *)

GoodCard == Card(TRUE, TRUE, Some(<<"B", "1">>), FALSE, "none",
                 Some(<<"T", "V">>), Some(<<"T", "V">>))

EnabledNext == NavElement("a", TRUE, FALSE, TRUE)

PageItem(label) == StripItem("page", None, label)

\* The pages the site may answer with
PageSamples ==
    { Document(c, n, s, None, None) :
        c \in {<<>>, <<GoodCard>>},
        n \in {<<>>, <<EnabledNext>>},
        s \in {None, Some(<<PageItem(<<"7">>)>>), Some(<<PageItem(<<"2", "0">>)>>),
               Some(<<StripItem("next", None, <<"N">>)>>)} }

\* The errors axios rejects with
ErrorSamples ==
    { [name |-> "AxiosError", message |-> "timeout of 25000ms exceeded"],
      [name |-> "AxiosError", message |-> "Request failed with status code 503"] }

KeywordSamples == {None, Some(<<>>), Some(<<" ">>), Some(<<" ", "\t">>),
                   Some(<<"t", "v">>), Some(<<" ", "t", "v", " ">>)}
PageParamSamples == {None, Some(<<"2">>), Some(<<"0">>), Some(<<"-", "1">>),
                     Some(<<"a", "b", "c">>)}
PagesParamSamples == {None, Some(<<"1">>), Some(<<"2">>), Some(<<"0">>),
                      Some(<<"-", "1">>), Some(<<"a", "b", "c">>), Some(<<"9">>)}

QuerySamples ==
    [keyword : KeywordSamples, page : PageParamSamples, pages : PagesParamSamples]

NoQuery == [keyword |-> None, page |-> None, pages |-> None]

Init ==
    /\ pc = "idle"
    /\ query = NoQuery
    /\ keyword = <<>>
    /\ page = Null
    /\ pages = Null
    /\ i = 0
    /\ output = <<>>
    /\ hasNext = FALSE
    /\ totalPages = Null
    /\ html = NoDocument
    /\ fetched = <<>>
    /\ received = <<>>
    /\ sent = <<>>

Next ==
    \/ \E q \in QuerySamples : Scraper(q)
    \/ \E doc \in PageSamples : FetchResolved(doc)
    \/ \E err \in ErrorSamples : FetchRejected(err)

Spec == Init /\ [][Next]_vars

\* The handler is run for a request that arrived, and every fetch awaited
\* settles: axios resolves or rejects it within its timeout of 25 s
FetchSettles == (\E doc \in PageSamples : FetchResolved(doc))
                    \/ (\E err \in ErrorSamples : FetchRejected(err))

SpecLive ==
    /\ Spec
    /\ WF_vars(\E q \in QuerySamples : Scraper(q))
    /\ WF_vars(FetchSettles)

-----------------------------------------------------------------------------
(* The parsers on their own: a document is given, then parsed as one        *)
(* iteration of the loop parses it.                                         *)

MaxCards == 2
MaxNav == 2
MaxItems == 2

SeqsUpTo(S, n) == UNION { [1..k -> S] : k \in 0..n }

CardSamples ==
    { GoodCard,
      Card(TRUE, TRUE, Some(<<"B", "2">>), FALSE, "none", None, Some(<<" ", "H", "i", " ">>)),
      Card(TRUE, TRUE, Some(<<"B", "3">>), FALSE, "none", Some(<<" ">>), Some(<<"X">>)),
      Card(TRUE, TRUE, Some(<<"B", "4">>), TRUE, "none", Some(<<"A", "d">>), Some(<<"A", "d">>)),
      Card(TRUE, TRUE, Some(<<"B", "5">>), FALSE, "aria-label", Some(<<"S", "p">>), Some(<<"S", "p">>)),
      Card(TRUE, TRUE, Some(<<"B", "6">>), FALSE, "label-text", Some(<<"S", "p">>), Some(<<"S", "p">>)),
      Card(TRUE, TRUE, Some(<<"B", "7">>), FALSE, "sp-component", None, None),
      Card(TRUE, TRUE, Some(<<"B", "8">>), FALSE, "none", None, None),
      Card(TRUE, TRUE, Some(<<"B", "9">>), FALSE, "none", Some(<<" ", "\t">>), Some(<<" ", "\t">>)),
      Card(TRUE, TRUE, Some(<<>>), FALSE, "none", Some(<<"E">>), Some(<<"E">>)),
      Card(TRUE, TRUE, None, FALSE, "none", Some(<<"N">>), Some(<<"N">>)),
      Card(FALSE, TRUE, Some(<<"B", "0">>), FALSE, "none", Some(<<"O">>), Some(<<"O">>)),
      Card(TRUE, FALSE, Some(<<"B", "0">>), FALSE, "none", Some(<<"D">>), Some(<<"D">>)) }

NavSamples == [tag : {"a", "span"}, next : BOOLEAN, disabled : BOOLEAN, ariaNext : BOOLEAN]

ItemSamples ==
    { PageItem(<<"7">>),
      StripItem("page", Some(<<"p", " ", "2", "0">>), <<"2">>),
      StripItem("page", Some(<<>>), <<"x">>),
      StripItem("previous", None, <<"1">>),
      StripItem("next", Some(<<"p", "3">>), <<"N">>),
      StripItem("ellipsis", None, <<".">>) }

ParseSamples ==
    { Document(c, <<>>, None, None, None) : c \in SeqsUpTo(CardSamples, MaxCards) }
    \cup { Document(<<>>, n, None, None, None) : n \in SeqsUpTo(NavSamples, MaxNav) }
    \cup { Document(<<>>, <<>>, a, b, c) :
             a \in {None, Some(<<>>)}, b \in {None, Some(<<PageItem(<<"4">>)>>)},
             c \in { Some(x) : x \in SeqsUpTo(ItemSamples, MaxItems) } }
    \cup { Document(<<>>, <<>>, Some(x), None, None) : x \in SeqsUpTo(ItemSamples, MaxItems) }
    \cup PageSamples

InitParse ==
    /\ pc = "parse"
    /\ html \in ParseSamples
    /\ query = NoQuery
    /\ keyword = <<>>
    /\ page = Null
    /\ pages = Null
    /\ i = 0
    /\ output = <<>>
    /\ hasNext = FALSE
    /\ totalPages = Null
    /\ fetched = <<>>
    /\ received = <<>>
    /\ sent = <<>>

\* Lines 241 to 247 of one iteration, on the document given
ParseDocument ==
    /\ pc = "parse"
    /\ output' = output \o parseProducts(html).products
    /\ hasNext' = parseProducts(html).hasNext
    /\ totalPages' = CaptureTotalPages(totalPages, html)
    /\ pc' = "parsed"
    /\ UNCHANGED <<query, keyword, page, pages, i, html, fetched, received, sent>>

NextParse == ParseDocument

SpecParse == InitParse /\ [][NextParse]_vars

-----------------------------------------------------------------------------
(* Properties *)

\* The request was answered with a success summary
Succeeded == sent # <<>> /\ sent[1].status = 200

\* C1: in the success response of a search that fetched a page, pagesFetched
\* is the number of loop iterations executed, that is, of page fetches issued
\* for the request, also when the loop stopped early and when no product was
\* found.
C1_PagesFetchedIsIterations ==
    (Succeeded /\ fetched # <<>>) =>
        sent[1].body.pagesFetched = Num(Len(fetched))

\* C2: pages are fetched one at a time, each page number one more than the one
\* before it, the first being the requested page, and a page is fetched only
\* after the page before it was received and parsed with hasNext true.
C2_FetchesInIncreasingOrder ==
    /\ Len(fetched) <= Len(received) + 1
    /\ \A k \in 1..Len(fetched) :
        /\ k = 1 => fetched[k] = page
        /\ k > 1 =>
            /\ JsLess(fetched[k - 1], fetched[k])
            /\ fetched[k] = JsAdd(fetched[k - 1], Num(1))
            /\ received[k - 1].ok
            /\ parseProducts(received[k - 1].doc).hasNext

\* The keyword parameter is absent, empty or made of whitespace only
KeywordMissing(q) ==
    \/ q.keyword = None
    \/ \A k \in 1..Len(q.keyword[1]) : q.keyword[1][k] \in Whitespace

\* C3: a request without keyword (missing, empty, whitespace only) is answered
\* with status 400 and error "Missing ?keyword=", and no page is ever fetched
\* for it.
C3_MissingKeywordRejected ==
    (pc # "idle" /\ KeywordMissing(query)) =>
        /\ pc = "done"
        /\ fetched = <<>>
        /\ sent = <<[status |-> 400, body |-> [error |-> "Missing ?keyword="]]>>

C3_Witness ==
    /\ pc = "done"
    /\ query.keyword = Some(<<" ", "\t">>)
    /\ query.pages = Some(<<"2">>)
    /\ Len(sent) = 1
    /\ sent[1].status = 400

\* C4: when the fetch of a page fails, it is the last fetch of the request, and
\* the one response is the scrape failure with the cause's message: it has no
\* product of the pages fetched before, and no success summary is sent.
C4_FetchFailureAborts ==
    \A k \in 1..Len(received) :
        ~received[k].ok =>
            /\ k = Len(received)
            /\ Len(fetched) = k
            /\ pc = "done"
            /\ sent = <<[status |-> 500,
                         body |-> [error |-> "Scraping of https://www.amazon.com/ failed.",
                                   details |-> received[k].err.message]]>>

C4_Witness ==
    /\ Len(received) = 2
    /\ ~received[2].ok
    /\ output # <<>>
    /\ Len(sent) = 1
    /\ sent[1].status = 500

\* C5: whatever the page and pages parameters are, the start page is an integer
\* of at least 1 and the page count an integer from 1 to maxPages.
C5_ParametersClamped ==
    (pc # "idle" /\ keyword # <<>>) =>
        /\ page.t = "num"
        /\ page.v >= 1
        /\ pages.t = "num"
        /\ pages.v \in 1..maxPages

\* C6: in a success summary hasNext is the hasNext of the last page fetched,
\* nextPage is page + pages when hasNext is true and null when it is false.
C6_NextPageCursor ==
    Succeeded =>
        LET body == sent[1].body
        IN  /\ received # <<>> =>
                body.hasNext = parseProducts(received[Len(received)].doc).hasNext
            /\ body.hasNext => body.nextPage = JsAdd(page, pages)
            /\ ~body.hasNext => body.nextPage = Null

\* C7: when no fetched page has a pagination strip with a numeric item, the
\* request succeeds and the summary's totalPages is null.
C7_TotalPagesNullWithoutStrip ==
    (/\ pc = "done"
     /\ received # <<>>
     /\ \A k \in 1..Len(received) :
            received[k].ok /\ getLastNumericPageSpan(received[k].doc) = Null) =>
        /\ Succeeded
        /\ sent[1].body.totalPages = Null

\* The detector's result for the first fetched page that has one, else null
FirstDetected ==
    LET found == { k \in 1..Len(received) :
                     received[k].ok /\ getLastNumericPageSpan(received[k].doc) # Null }
    IN  IF found = {} THEN Null
        ELSE getLastNumericPageSpan(
                 received[CHOOSE k \in found : \A m \in found : k <= m].doc)

\* C9 as claimed: the value that feeds totalPages is the detector's result for
\* the first page fetched, null included, whatever later pages hold.
C9_FromFirstPageOnly ==
    (received # <<>> /\ received[1].ok) =>
        totalPages = getLastNumericPageSpan(received[1].doc)

\* C9: the value that feeds totalPages is the detector's result for the first
\* fetched page for which it is not null (null when there is none); pages
\* fetched after that one never change it.
C9_FromFirstPageWithStrip ==
    /\ totalPages = FirstDetected
    /\ Succeeded => sent[1].body.totalPages = JsonNumber(CeilDiv(FirstDetected, pages))

C9_Witness ==
    /\ Len(received) = 2
    /\ received[2].ok
    /\ getLastNumericPageSpan(received[1].doc) = Null
    /\ getLastNumericPageSpan(received[2].doc) = Num(7)
    /\ totalPages = Num(7)

-----------------------------------------------------------------------------
(* Properties of the parsers *)

IsCandidate(card) ==
    /\ card.mainSlot
    /\ card.resultItem
    /\ card.dataAsin \notin {None, Some(<<>>)}

HasSponsoredMark(card) == card.adHolder \/ card.sponsored # "none"

HasTitleText(card) ==
    \E opt \in {card.h2ASpan, card.h2Span} :
        opt # None /\ \E k \in 1..Len(opt[1]) : opt[1][k] \notin Whitespace

\* C8: every record has a non-empty title, none comes from a card with the
\* AdHolder class or a sponsored marker, and the records are those of the other
\* candidate cards, one each, in document order.
C8_ProductsAreTheKeptCards ==
    pc = "parsed" =>
        LET kept == { k \in 1..Len(html.cards) :
                        /\ IsCandidate(html.cards[k])
                        /\ ~HasSponsoredMark(html.cards[k])
                        /\ HasTitleText(html.cards[k]) }
            rank(k) == Cardinality({ m \in kept : m <= k })
        IN  /\ Len(output) = Cardinality(kept)
            /\ \A j \in 1..Len(output) : output[j].title # <<>>
            /\ \A k \in kept :
                /\ output[rank(k)].asin = html.cards[k].dataAsin[1]
                /\ output[rank(k)].title = Title(html.cards[k])

C8_Witness ==
    /\ pc = "parsed"
    /\ Len(html.cards) = 2
    /\ html.cards[1].sponsored = "label-text"
    /\ html.cards[2] = GoodCard
    /\ output = <<[asin |-> <<"B", "1">>, title |-> <<"T", "V">>,
                   url |-> <<SCRAPING_URI, "/dp/", "B", "1">>]>>

\* An element is a next-page control when it has the next class or the label
IsNextControl(el) == el.next \/ el.ariaNext

\* C10 as claimed: hasNext is true exactly when the document has a next-page
\* control that is not in the disabled state.
C10_EnabledControlOnly ==
    pc = "parsed" =>
        (hasNext <=> \E k \in 1..Len(html.nav) :
                        IsNextControl(html.nav[k]) /\ ~html.nav[k].disabled)

\* C10: hasNext is true exactly when the document has an anchor with the next
\* class and without the disabled class, or an anchor labelled "Go to next
\* page", whatever its state.
C10_EnabledAnchorOrLabelledAnchor ==
    pc = "parsed" =>
        (hasNext <=> \E k \in 1..Len(html.nav) :
                        /\ html.nav[k].tag = "a"
                        /\ \/ html.nav[k].next /\ ~html.nav[k].disabled
                           \/ html.nav[k].ariaNext)

C10_Witness ==
    /\ pc = "parsed"
    /\ html.nav = <<NavElement("a", TRUE, TRUE, TRUE)>>
    /\ hasNext

-----------------------------------------------------------------------------
(* Termination *)

\* C11: when every fetch settles, a request gets its response, and only one;
\* at most maxPages fetches are issued for it, and none once the response is
\* sent.
C11_OneResponseAfterBoundedFetches ==
    /\ [](Len(sent) <= 1 /\ Len(fetched) <= maxPages)
    /\ [](sent # <<>> => pc = "done" /\ sent[1].status \in {200, 400, 500})
    /\ [][sent # <<>> => fetched' = fetched /\ sent' = sent]_vars
    /\ <>(Len(sent) = 1)

C11_Witness ==
    /\ pc = "done"
    /\ Len(fetched) = maxPages
    /\ Len(received) = maxPages
    /\ Len(sent) = 1
    /\ sent[1].status = 200

====
